---- MODULE Spec2Model ----
(***************************************************************************)
(* Model of examples/uwebsockets/src/app.ts of graphql-yoga:               *)
(*   - yogaHandler: one HTTP exchange served over uWebSockets.js           *)
(*     (request body stream, the awaited engine call, the response writer) *)
(*   - wsHandler: the graphql-ws behaviour with its onSubscribe hook and   *)
(*     its execute/subscribe indirections.                                 *)
(* Two specifications share the variables: SpecHttp drives one HTTP        *)
(* exchange, SpecWs drives one WebSocket connection.                       *)
(***************************************************************************)
EXTENDS Integers, Sequences, FiniteSets, TLC

(* ------------------------------ bounds --------------------------------- *)

\* request body chunks the transport may deliver in one exchange
MaxChunks == 2
\* headers of a computed response
MaxHeaders == 2
\* bytes of an immediate-buffer response body
MaxBytes == 2
\* chunks of an asynchronous-sequence response body
MaxBodyChunks == 2
\* start-operation frames handled on one connection
MaxStarts == 2
\* swaps of the engine's active execute/subscribe implementations
MaxSwaps == 1
\* results a running subscription emits
MaxNext == 2

(* ------------------------------ helpers -------------------------------- *)

SeqsUpTo(S, n) == UNION {[1..k -> S] : k \in 0..n}

IsPrefix(s, t) == Len(s) <= Len(t) /\ \A i \in 1..Len(s) : s[i] = t[i]

(* --------------------------- HTTP: inputs ------------------------------ *)

\* req.getMethod() yields the verb in lower case
Methods == {"get", "head", "post"}

\* the content of the i-th request body chunk: all distinct, so that a loss,
\* a repeat or a swap shows
Payload(i) == <<"p1", "p2", "p3", "p4">>[i]

\* header lists the socket-level iterator req.forEach may yield
RawHeaderLists ==
  { << <<"accept", "json">> >>,
    << <<"accept", "json">>, <<"accept", "html">> >> }

\* the value of an unassigned body, and what the engine is handed for it
NoBody == [present |-> FALSE, buffer |-> <<>>, ended |-> FALSE,
           errored |-> FALSE, endEmitted |-> FALSE]

BodyAbsent == "undefined"

\* the headers a computed response may carry: fetch Headers iterate each
\* (lower-cased) name once
HeaderItems ==
  { <<"content-length", "0">>, <<"content-length", "17">>,
    <<"content-type", "application/json">>, <<"x-yoga", "1">> }

HeaderLists ==
  { h \in SeqsUpTo(HeaderItems, MaxHeaders) :
      \A i, j \in 1..Len(h) : i # j => h[i][1] # h[j][1] }

Statuses == { <<"200", "OK">>, <<"400", "Bad Request">> }

\* the i-th byte of a buffer body and the i-th chunk of a stream body: all
\* distinct, so that a loss, a repeat or a swap shows
ByteAt(i) == <<"b1", "b2", "b3", "b4">>[i]
ChunkAt(i) == <<"c1", "c2", "c3", "c4">>[i]

\* response.body: absent, a Uint8Array, or an async sequence, which yields its
\* chunks as the loop asks for them and then completes or rejects
Bodies ==
  { [kind |-> "none"] }
  \cup { [kind |-> "buffer", bytes |-> [i \in 1..n |-> ByteAt(i)]] :
           n \in 0..MaxBytes }
  \cup { [kind |-> "stream"] }

Responses ==
  { [status |-> s[1], statusText |-> s[2], headers |-> h, body |-> b] :
      s \in Statuses, h \in HeaderLists, b \in Bodies }

NoResponse == [status |-> "", statusText |-> "", headers |-> <<>>,
               body |-> [kind |-> "none"]]

(* --------------------------- HTTP: state ------------------------------- *)

VARIABLES
  pc,           \* position of yogaHandler: idle, awaitFetch, streaming, done, failed
  method,       \* req.getMethod()
  rawHeaders,   \* what req.forEach iterates
  body,         \* the Readable of the request body, or NoBody
  onDataReg,    \* res.onData callback registered
  onAbortedReg, \* res.onAborted callback registered
  headers,      \* the plain mapping the request headers are copied into
  fetchArgs,    \* what yoga.fetch was called with
  delivered,    \* contents of the chunks the transport has delivered, in order
  lastSent,     \* the transport has delivered a chunk with isLast
  live,         \* index of the chunk whose data callback has not returned yet (0: none)
  aborted,      \* the transport's abort has fired
  observed,     \* what the consumer of the body stream has read, in order
  consumer,     \* reading, ended, errored
  completions,  \* number of times the body stream signalled its end
  response,     \* the computed response yoga.fetch resolved with
  produced,     \* chunks the response body has yielded to the for-await loop
  calls,        \* calls made on the response sink, in order
  callsAtAbort, \* Len(calls) when the abort fired (-1: not fired)
  reqReads      \* reads of the request object, each with whether the handler
                \* had suspended (returned to the event loop) before it

httpVars == <<pc, method, rawHeaders, body, onDataReg, onAbortedReg, headers,
              fetchArgs, delivered, lastSent, live, aborted, observed, consumer,
              completions, response, produced, calls, callsAtAbort, reqReads>>

(* ----------------------------- WS: state ------------------------------- *)

VARIABLES
  wsOpen,       \* the WebSocket connection is open
  active,       \* versions of the engine's active execute and subscribe
  ops,          \* per operation id: the operation started last under that id
  sent,         \* protocol messages sent to the client, in order
  starts,       \* start-operation frames handled so far
  resolutions,  \* calls of yoga.getEnveloped so far
  swaps         \* swaps of the active implementations so far

wsVars == <<wsOpen, active, ops, sent, starts, resolutions, swaps>>

vars == <<httpVars, wsVars>>

(* ------------------------ HTTP: the body stream ------------------------ *)

\* new Readable({ read() {} }): nothing buffered, not ended
NewReadable == [present |-> TRUE, buffer |-> <<>>, ended |-> FALSE,
                errored |-> FALSE, endEmitted |-> FALSE]

\* Buffer.from(chunk) of an ArrayBuffer is a view on the transport's memory,
\* not a copy: the stream buffers a reference to delivered chunk number i
BufferFrom(i) == i

\* Readable.push(chunk): buffered in arrival order; after push(null) the
\* stream is errored (push after EOF)
Push(r, chunk) ==
  IF r.ended THEN [r EXCEPT !.errored = TRUE]
  ELSE [r EXCEPT !.buffer = Append(@, chunk)]

\* Readable.push(null): end of stream; a second one changes nothing
PushNull(r) == [r EXCEPT !.ended = TRUE]

\* faulty variant: on the last chunk the stream is ended before the chunk
\* is pushed
OnDataCallbackEndFirst(r, i, isLast) ==
  IF isLast THEN Push(PushNull(r), BufferFrom(i)) ELSE Push(r, BufferFrom(i))

\* the data callback: push the chunk, then end the stream on the last one
OnDataCallback(r, i, isLast) ==
  LET r1 == Push(r, BufferFrom(i))
  IN IF isLast THEN PushNull(r1) ELSE r1

\* the abort callback
OnAbortedCallback(r) == PushNull(r)

\* faulty variant: only get is taken for a bodyless method
HasBodyStreamGetOnly(m) == m # "get"

\* the methods that get a body stream
HasBodyStream(m) == m # "get" /\ m # "head"

RECURSIVE CopyHeaders(_, _)
\* req.forEach((key, value) => { headers[key] = value })
CopyHeaders(raw, acc) ==
  IF raw = <<>> THEN acc
  ELSE CopyHeaders(Tail(raw),
         [k \in DOMAIN acc \cup {Head(raw)[1]} |->
            IF k = Head(raw)[1] THEN Head(raw)[2] ELSE acc[k]])

EmptyMap == [k \in {} |-> ""]

\* the reads of the request object made up to the await of yoga.fetch:
\* req.getMethod(), the req.forEach header iteration, req.getUrl()
ReqReadsBeforeAwait == <<"getMethod", "forEach", "getUrl">>

\* faulty variant: the URL is read again after the await
ReqReadsAfterAwaitUrl == <<"getUrl">>

\* the reads of the request object made after the await: the response
\* writer uses only the response and the sink
ReqReadsAfterAwait == <<>>

\* the reads appended to the log, each marked with whether the handler had
\* already suspended
LogReads(log, reads, suspended) ==
  log \o [i \in 1..Len(reads) |-> [op |-> reads[i], suspended |-> suspended]]

(* ------------------------ HTTP: the response sink ---------------------- *)

\* a call on the response sink: the method, the number of arguments it was
\* given, and the argument (a string in pieces, a key and a value, or bytes)
SinkCall(op, n, arg) == [op |-> op, n |-> n, arg |-> arg]

\* faulty variant: the status text is written before the numeric status
StatusLineTextFirst(resp) == <<resp.statusText, " ", resp.status>>

\* `${response.status} ${response.statusText}`
StatusLine(resp) == <<resp.status, " ", resp.statusText>>

\* faulty variant: no header is held back
SkippedHeaderNone(key) == FALSE

\* the header the writer does not forward
SkippedHeader(key) == key = "content-length"

RECURSIVE WriteHeaders(_)
\* response.headers.forEach: one writeHeader per header, except the skipped one
WriteHeaders(hs) ==
  IF hs = <<>> THEN <<>>
  ELSE IF SkippedHeader(Head(hs)[1]) THEN WriteHeaders(Tail(hs))
       ELSE <<SinkCall("writeHeader", 2, Head(hs))>> \o WriteHeaders(Tail(hs))

\* faulty variant: the immediate buffer is not handed to end
BodyStartDropsBuffer(b) ==
  IF b.kind = "stream" THEN <<>> ELSE <<SinkCall("end", 0, <<>>)>>

\* the calls of the synchronous stretch after the status and the headers: an
\* immediate buffer is handed to end, no body ends at once, an asynchronous
\* sequence suspends in the for-await loop
BodyStart(b) ==
  IF b.kind = "buffer" THEN <<SinkCall("end", 1, b.bytes)>>
  ELSE IF b.kind = "none" THEN <<SinkCall("end", 0, <<>>)>>
  ELSE <<>>

\* faulty variant: the loop hands each chunk to end instead of write
ChunkCallEnds(chunk) == SinkCall("end", 1, <<chunk>>)

\* the call the loop body makes for one chunk
ChunkCall(chunk) == SinkCall("write", 1, <<chunk>>)

\* the call after the loop
FinalCall == SinkCall("end", 0, <<>>)

(* ---------------------------- HTTP: actions ---------------------------- *)

\* yogaHandler up to its first suspension, the awaited yoga.fetch
HandlerStart ==
  /\ UNCHANGED wsVars
  /\ pc = "idle"
  /\ body' = IF HasBodyStream(method) THEN NewReadable ELSE NoBody
  /\ onDataReg' = HasBodyStream(method)
  /\ onAbortedReg' = HasBodyStream(method)
  /\ headers' = CopyHeaders(rawHeaders, EmptyMap)
  /\ fetchArgs' = [url |-> "/graphql", method |-> method, headers |-> headers',
                   body |-> IF body'.present THEN "stream" ELSE BodyAbsent]
  /\ reqReads' = LogReads(reqReads, ReqReadsBeforeAwait, FALSE)
  /\ pc' = "awaitFetch"
  /\ UNCHANGED <<method, rawHeaders, delivered, lastSent, live, aborted,
                 observed, consumer, completions, response, produced, calls,
                 callsAtAbort>>

\* the transport delivers one body chunk to the registered data callback; the
\* callback runs to its end, the chunk's memory stays valid until it returns
TransportData(isLast) ==
  /\ UNCHANGED wsVars
  /\ pc # "idle"
  /\ onDataReg
  /\ ~aborted /\ ~lastSent /\ live = 0
  /\ Len(delivered) < MaxChunks
  /\ delivered' = Append(delivered, Payload(Len(delivered) + 1))
  /\ live' = Len(delivered) + 1
  /\ lastSent' = isLast
  /\ body' = OnDataCallback(body, Len(delivered) + 1, isLast)
  /\ UNCHANGED <<pc, method, rawHeaders, reqReads, onDataReg, onAbortedReg, headers,
                 fetchArgs, aborted, observed, consumer, completions, response,
                 produced, calls, callsAtAbort>>

\* the data callback has returned: the transport detaches the chunk's
\* ArrayBuffer, every view on it is dangling from here on
DataReturn ==
  /\ UNCHANGED wsVars
  /\ live # 0
  /\ live' = 0
  /\ UNCHANGED <<pc, method, rawHeaders, reqReads, body, onDataReg, onAbortedReg, headers,
                 fetchArgs, delivered, lastSent, aborted, observed, consumer,
                 completions, response, produced, calls, callsAtAbort>>

\* the transport closed before the exchange completed: fires at most once, and
\* runs the abort callback when one is registered
TransportAbort ==
  /\ UNCHANGED wsVars
  /\ pc \notin {"idle", "done"}
  /\ ~aborted /\ live = 0
  /\ aborted' = TRUE
  /\ callsAtAbort' = Len(calls)
  /\ body' = IF onAbortedReg THEN OnAbortedCallback(body) ELSE body
  /\ UNCHANGED <<pc, method, rawHeaders, reqReads, onDataReg, onAbortedReg, headers,
                 fetchArgs, delivered, lastSent, live, observed, consumer,
                 completions, response, produced, calls>>

\* What reading views on detached memory can yield.  A read that returns one
\* buffered chunk returns the view as it is: detached, it has length zero.  A
\* read that returns several concatenates them: copying from a detached view
\* throws, or leaves the bytes of the fresh allocation in its place.
ReadOutcomes == {"asis", "error", "garbage"}

RECURSIVE Bytes(_, _)
\* the bytes a read of the buffered references refs yields: the content of a
\* chunk whose memory is still valid, otherwise nothing or stale bytes
Bytes(refs, outcome) ==
  IF refs = <<>> THEN <<>>
  ELSE (IF Head(refs) = live THEN <<delivered[Head(refs)]>>
        ELSE IF outcome = "garbage" THEN <<"?">> ELSE <<>>)
       \o Bytes(Tail(refs), outcome)

\* the engine, single consumer of the body stream, reads: it takes the first k
\* buffered chunks
ConsumerRead(k, outcome) ==
  /\ UNCHANGED wsVars
  /\ body.present
  /\ consumer = "reading"
  /\ k \in 1..Len(body.buffer)
  /\ LET refs == SubSeq(body.buffer, 1, k)
         stale == \E j \in 1..k : refs[j] # live
     IN /\ outcome = "asis" <=> (k = 1 \/ ~stale)
        /\ IF body.errored \/ (stale /\ outcome = "error")
           THEN consumer' = "errored" /\ observed' = observed
           ELSE consumer' = consumer /\ observed' = observed \o Bytes(refs, outcome)
  /\ body' = [body EXCEPT !.buffer = SubSeq(@, k + 1, Len(@))]
  /\ UNCHANGED <<pc, method, rawHeaders, reqReads, onDataReg, onAbortedReg, headers,
                 fetchArgs, delivered, lastSent, live, aborted, completions,
                 response, produced, calls, callsAtAbort>>

\* the buffer is drained and the stream has ended: the consumer sees the end
ConsumerEnd ==
  /\ UNCHANGED wsVars
  /\ body.present
  /\ consumer = "reading"
  /\ body.buffer = <<>> /\ body.ended /\ ~body.endEmitted
  /\ IF body.errored
     THEN consumer' = "errored" /\ UNCHANGED <<body, completions>>
     ELSE /\ consumer' = "ended"
          /\ body' = [body EXCEPT !.endEmitted = TRUE]
          /\ completions' = completions + 1
  /\ UNCHANGED <<pc, method, rawHeaders, reqReads, onDataReg, onAbortedReg, headers,
                 fetchArgs, delivered, lastSent, live, aborted, observed,
                 response, produced, calls, callsAtAbort>>

\* yoga.fetch resolves and the handler runs on to its next suspension or its
\* end.  A call on the sink of an aborted exchange throws.
Resume(resp) ==
  /\ UNCHANGED wsVars
  /\ pc = "awaitFetch"
  /\ response' = resp
  /\ produced' = 0
  /\ reqReads' = LogReads(reqReads, ReqReadsAfterAwait, TRUE)
  /\ IF aborted
     THEN /\ calls' = Append(calls, SinkCall("writeStatus", 1, StatusLine(resp)))
          /\ pc' = "failed"
     ELSE /\ calls' = calls \o <<SinkCall("writeStatus", 1, StatusLine(resp))>>
                        \o WriteHeaders(resp.headers) \o BodyStart(resp.body)
          /\ pc' = IF resp.body.kind = "stream" THEN "streaming" ELSE "done"
  /\ UNCHANGED <<method, rawHeaders, body, onDataReg, onAbortedReg, headers,
                 fetchArgs, delivered, lastSent, live, aborted, observed,
                 consumer, completions, callsAtAbort>>

\* the response body yields its next chunk and the loop writes it
StreamChunk ==
  /\ UNCHANGED wsVars
  /\ pc = "streaming"
  /\ produced < MaxBodyChunks
  /\ produced' = produced + 1
  /\ calls' = Append(calls, ChunkCall(ChunkAt(produced + 1)))
  /\ pc' = IF aborted THEN "failed" ELSE pc
  /\ UNCHANGED <<method, rawHeaders, reqReads, body, onDataReg, onAbortedReg, headers,
                 fetchArgs, delivered, lastSent, live, aborted, observed,
                 consumer, completions, response, callsAtAbort>>

\* the response body completes: the loop ends and the handler ends the exchange
StreamDone ==
  /\ UNCHANGED wsVars
  /\ pc = "streaming"
  /\ calls' = Append(calls, FinalCall)
  /\ pc' = IF aborted THEN "failed" ELSE "done"
  /\ UNCHANGED <<method, rawHeaders, reqReads, body, onDataReg, onAbortedReg, headers,
                 fetchArgs, delivered, lastSent, live, aborted, observed,
                 consumer, completions, response, produced, callsAtAbort>>

\* the response body rejects: the for-await loop throws out of the handler
StreamFail ==
  /\ UNCHANGED wsVars
  /\ pc = "streaming"
  /\ pc' = "failed"
  /\ UNCHANGED <<method, rawHeaders, reqReads, body, onDataReg, onAbortedReg, headers,
                 fetchArgs, delivered, lastSent, live, aborted, observed,
                 consumer, completions, response, produced, calls,
                 callsAtAbort>>

InitHttp ==
  /\ pc = "idle"
  /\ method \in Methods
  /\ rawHeaders \in RawHeaderLists
  /\ body = NoBody
  /\ onDataReg = FALSE
  /\ onAbortedReg = FALSE
  /\ headers = EmptyMap
  /\ fetchArgs = [url |-> "", method |-> "", headers |-> EmptyMap,
                  body |-> BodyAbsent]
  /\ delivered = <<>>
  /\ lastSent = FALSE
  /\ live = 0
  /\ aborted = FALSE
  /\ observed = <<>>
  /\ consumer = "reading"
  /\ completions = 0
  /\ response = NoResponse
  /\ produced = 0
  /\ calls = <<>>
  /\ callsAtAbort = -1
  /\ reqReads = <<>>

NextHttp ==
  \/ HandlerStart
  \/ \E isLast \in BOOLEAN : TransportData(isLast)
  \/ DataReturn
  \/ TransportAbort
  \/ \E k \in 1..MaxChunks, outcome \in ReadOutcomes : ConsumerRead(k, outcome)
  \/ ConsumerEnd
  \/ \E resp \in Responses : Resume(resp)
  \/ StreamChunk
  \/ StreamDone
  \/ StreamFail

(* ----------------------------- WS: inputs ------------------------------ *)

Ids == {"A", "B"}

\* the schema of createSchema: the fields of its two root types
Schema == [query |-> {"hello"}, subscription |-> {"time"}]

\* msg.payload.query, as its tokens
Queries ==
  { <<"{", "hello", "}">>,
    <<"subscription", "{", "time", "}">>,
    <<"{", "invalidField", "}">>,
    <<"{", "invalidField", "other", "}">>,
    <<"{", "hello">> }

Punctuation == {"{", "}"}
Keywords == {"query", "subscription"}

NoDocument == [ok |-> FALSE, operation |-> "query", selections |-> <<>>]

\* a selection set: an opening brace, one or more names, a closing brace
ParseSelectionSet(operation, toks) ==
  IF /\ Len(toks) >= 3
     /\ toks[1] = "{" /\ toks[Len(toks)] = "}"
     /\ \A i \in 2..(Len(toks) - 1) : toks[i] \notin Punctuation \cup Keywords
  THEN [ok |-> TRUE, operation |-> operation,
        selections |-> SubSeq(toks, 2, Len(toks) - 1)]
  ELSE NoDocument

\* parse of the enveloped tuple: the document of a query text, or a failure
\* (ok = FALSE stands for the GraphQLError it throws)
Parse(toks) ==
  IF toks = <<>> THEN NoDocument
  ELSE IF Head(toks) \in Keywords THEN ParseSelectionSet(Head(toks), Tail(toks))
  ELSE ParseSelectionSet("query", toks)

RECURSIVE ValidateSelections(_, _)
ValidateSelections(fields, sels) ==
  IF sels = <<>> THEN <<>>
  ELSE IF Head(sels) \in fields THEN ValidateSelections(fields, Tail(sels))
  ELSE <<[message |-> "Cannot query field", field |-> Head(sels)]>>
         \o ValidateSelections(fields, Tail(sels))

\* validate of the enveloped tuple: one error per unknown field, in order
Validate(schema, document) ==
  ValidateSelections(schema[document.operation], document.selections)

(* ------------------------- WS: the behaviour --------------------------- *)

\* yoga.getEnveloped(ctx): the tuple wired into the engine at this call
GetEnveloped == [schema |-> Schema, execute |-> active.execute,
                 subscribe |-> active.subscribe]

NoArgs == [schema |-> Schema, operationName |-> "null", document |-> NoDocument,
           variableValues |-> "null", contextValue |-> "none",
           rootValue |-> [execute |-> 0, subscribe |-> 0]]

\* the args literal of onSubscribe, its contextValue still awaited
BuildArgs(enveloped, payload) ==
  [schema |-> enveloped.schema,
   operationName |-> payload.operationName,
   document |-> Parse(payload.query),
   variableValues |-> payload.variables,
   contextValue |-> "none",
   rootValue |-> [execute |-> enveloped.execute,
                  subscribe |-> enveloped.subscribe]]

\* faulty variant: only the first validation error is returned
OnSubscribeFirstError(args) ==
  LET errors == Validate(args.schema, args.document)
  IN IF Len(errors) # 0
     THEN [isErrors |-> TRUE, errors |-> <<errors[1]>>, args |-> args]
     ELSE [isErrors |-> FALSE, errors |-> <<>>, args |-> args]

\* faulty variant: the args returned reference the implementations wired in
\* when the context factory settled, not those resolved at the start
OnSubscribeReResolved(args) ==
  LET errors == Validate(args.schema, args.document)
      again == [args EXCEPT !.rootValue = [execute |-> active.execute,
                                           subscribe |-> active.subscribe]]
  IN IF Len(errors) # 0 THEN [isErrors |-> TRUE, errors |-> errors, args |-> again]
     ELSE [isErrors |-> FALSE, errors |-> <<>>, args |-> again]

\* what onSubscribe returns after validation: the errors, or the args
OnSubscribeResult(args) ==
  LET errors == Validate(args.schema, args.document)
  IN IF Len(errors) # 0 THEN [isErrors |-> TRUE, errors |-> errors, args |-> args]
     ELSE [isErrors |-> FALSE, errors |-> <<>>, args |-> args]

\* faulty variant: execute is the implementation imported at startup
WsExecuteStartup(args) == 0

\* wsHandler.execute and wsHandler.subscribe: the implementation they call
WsExecute(args) == args.rootValue.execute
WsSubscribe(args) == args.rootValue.subscribe

NoOp == [st |-> "none", no |-> 0, payload |-> [query |-> <<>>, operationName |-> "null",
                                               variables |-> "null"],
         resolved |-> [execute |-> 0, subscribe |-> 0], args |-> NoArgs,
         parses |-> 0, contexts |-> 0, validates |-> 0,
         invoked |-> [fn |-> "none", impl |-> 0], nexts |-> 0]

InFlight(o) == o.st \in {"awaitContext", "running"}

\* faulty variant: every message carries the id of the first operation
MessageSharedId(type, id, no, payload) ==
  [type |-> type, id |-> "A", no |-> no, payload |-> payload]

\* a protocol message for one operation: tagged with that operation's id
Message(type, id, no, payload) ==
  [type |-> type, id |-> id, no |-> no, payload |-> payload]

\* a start-operation frame arrives: graphql-ws calls onSubscribe, which runs
\* to its suspension at the awaited contextFactory().  When parse throws, the
\* hook rejects, message handling fails and the socket is closed.
StartOperation(id, q) ==
  /\ UNCHANGED httpVars
  /\ wsOpen
  /\ starts < MaxStarts
  /\ ~InFlight(ops[id])
  /\ starts' = starts + 1
  /\ resolutions' = resolutions + 1
  /\ LET payload == [query |-> q, operationName |-> "null", variables |-> "null"]
         enveloped == GetEnveloped
         args == BuildArgs(enveloped, payload)
         o == [NoOp EXCEPT !.no = starts + 1, !.payload = payload,
                           !.resolved = [execute |-> active.execute,
                                         subscribe |-> active.subscribe],
                           !.parses = 1]
     IN IF ~args.document.ok
        THEN /\ ops' = [i \in Ids |->
                         IF i = id THEN [o EXCEPT !.st = "rejected"]
                         ELSE IF ops[i].st = "running"
                         THEN [ops[i] EXCEPT !.st = "closed"]
                         ELSE ops[i]]
             /\ wsOpen' = FALSE
        ELSE /\ ops' = [ops EXCEPT ![id] =
                          [o EXCEPT !.st = "awaitContext", !.args = args,
                                    !.contexts = 1]]
             /\ wsOpen' = wsOpen
  /\ UNCHANGED <<active, sent, swaps>>

\* contextFactory() settles: onSubscribe validates and returns; graphql-ws
\* sends the errors as one error message, or hands the args to
\* wsHandler.subscribe (a subscription) or wsHandler.execute (anything else).
\* On a connection closed in the meantime the hook still runs on, but nothing
\* is sent and the operation does not stream.
ContextReady(id) ==
  /\ UNCHANGED httpVars
  /\ ops[id].st = "awaitContext"
  /\ LET args == [ops[id].args EXCEPT !.contextValue = "context"]
         r == OnSubscribeResult(args)
         o == [ops[id] EXCEPT !.args = r.args, !.validates = 1]
     IN IF r.isErrors
        THEN /\ ops' = [ops EXCEPT ![id] =
                  [o EXCEPT !.st = IF wsOpen THEN "errored" ELSE "closed"]]
             /\ sent' = IF wsOpen
                        THEN Append(sent, Message("error", id, o.no, r.errors))
                        ELSE sent
        ELSE /\ ops' = [ops EXCEPT ![id] =
                  [o EXCEPT !.st = IF wsOpen THEN "running" ELSE "closed",
                            !.invoked =
                              IF r.args.document.operation = "subscription"
                              THEN [fn |-> "subscribe", impl |-> WsSubscribe(r.args)]
                              ELSE [fn |-> "execute", impl |-> WsExecute(r.args)]]]
             /\ sent' = sent
  /\ UNCHANGED <<wsOpen, active, starts, resolutions, swaps>>

\* a running operation yields a result: one next message for its id
EmitNext(id) ==
  /\ UNCHANGED httpVars
  /\ wsOpen
  /\ ops[id].st = "running"
  /\ ops[id].nexts < (IF ops[id].invoked.fn = "subscribe" THEN MaxNext ELSE 1)
  /\ ops' = [ops EXCEPT ![id].nexts = @ + 1]
  /\ sent' = Append(sent, Message("next", id, ops[id].no, <<ops[id].nexts + 1>>))
  /\ UNCHANGED <<wsOpen, active, starts, resolutions, swaps>>

\* a query or mutation has emitted its single result: complete
EmitComplete(id) ==
  /\ UNCHANGED httpVars
  /\ wsOpen
  /\ ops[id].st = "running"
  /\ ops[id].invoked.fn = "execute"
  /\ ops[id].nexts = 1
  /\ ops' = [ops EXCEPT ![id].st = "completed"]
  /\ sent' = Append(sent, Message("complete", id, ops[id].no, <<>>))
  /\ UNCHANGED <<wsOpen, active, starts, resolutions, swaps>>

\* the client's stop frame ends a running subscription; nothing is sent back
ClientStop(id) ==
  /\ UNCHANGED httpVars
  /\ wsOpen
  /\ ops[id].st = "running"
  /\ ops[id].invoked.fn = "subscribe"
  /\ ops' = [ops EXCEPT ![id].st = "stopped"]
  /\ UNCHANGED <<wsOpen, active, sent, starts, resolutions, swaps>>

\* the connection closes: every streaming operation ends, nothing is sent; a
\* hook suspended in onSubscribe is still to resume
ConnectionClose ==
  /\ UNCHANGED httpVars
  /\ wsOpen
  /\ wsOpen' = FALSE
  /\ ops' = [i \in Ids |->
               IF ops[i].st = "running" THEN [ops[i] EXCEPT !.st = "closed"]
               ELSE ops[i]]
  /\ UNCHANGED <<active, sent, starts, resolutions, swaps>>

\* instrumentation wraps the engine: another execute or subscribe is active
SwapImplementation(which) ==
  /\ UNCHANGED httpVars
  /\ swaps < MaxSwaps
  /\ swaps' = swaps + 1
  /\ active' = [active EXCEPT ![which] = swaps + 1]
  /\ UNCHANGED <<wsOpen, ops, sent, starts, resolutions>>

InitWs ==
  /\ wsOpen = TRUE
  /\ active = [execute |-> 0, subscribe |-> 0]
  /\ ops = [i \in Ids |-> NoOp]
  /\ sent = <<>>
  /\ starts = 0
  /\ resolutions = 0
  /\ swaps = 0

NextWs ==
  \/ \E id \in Ids, q \in Queries : StartOperation(id, q)
  \/ \E id \in Ids : ContextReady(id)
  \/ \E id \in Ids : EmitNext(id)
  \/ \E id \in Ids : EmitComplete(id)
  \/ \E id \in Ids : ClientStop(id)
  \/ ConnectionClose
  \/ \E which \in {"execute", "subscribe"} : SwapImplementation(which)

(* --------------------------- specifications ---------------------------- *)

\* one HTTP exchange, of any method and request headers
Init == InitHttp /\ InitWs

SpecHttp == Init /\ [][NextHttp]_vars

\* one WebSocket connection (the HTTP handler stays idle)
InitConnection ==
  /\ InitHttp
  /\ method = "get"
  /\ rawHeaders = << <<"accept", "json">> >>
  /\ InitWs

SpecWs == InitConnection /\ [][NextWs]_vars

(* ------------------------------ claims --------------------------------- *)

CallsOf(op) == SelectSeq(calls, LAMBDA c : c.op = op)

ArgsOf(cs) == [i \in 1..Len(cs) |-> cs[i].arg]

BodylessMethods == {"get", "head"}

\* the handler resumed on an exchange that had not been aborted: the status
\* line and the headers went out
WriterRan == calls # <<>> /\ callsAtAbort # 0

\* C1: the body handed to the engine is absent exactly for get and head; for
\* those no body stream exists and no data or abort callback is registered,
\* for every other method a body stream exists.
C1_BodyIffBodyCarryingMethod ==
  pc # "idle" =>
    /\ (fetchArgs.body = BodyAbsent <=> method \in BodylessMethods)
    /\ (method \in BodylessMethods =>
          ~body.present /\ ~onDataReg /\ ~onAbortedReg)
    /\ (method \notin BodylessMethods => body.present)

C1_Witness ==
  pc = "awaitFetch" /\ method = "head" /\ fetchArgs.body = BodyAbsent

\* C2: once the chunks c1..cn have been delivered, the last one flagged, the
\* consumer observes exactly c1..cn in that order, whenever it reads, and the
\* stream signals its end exactly once.
C2_ChunksObservedInOrder ==
  /\ completions <= 1
  /\ lastSent =>
       /\ consumer # "errored"
       /\ IsPrefix(observed, delivered)
       /\ (consumer = "ended" => observed = delivered /\ completions = 1)

\* C3: an abort before the last-flag chunk ends the consumer's stream without
\* an error.
C3_AbortEndsStreamCleanly ==
  (body.present /\ aborted /\ ~lastSent) =>
    /\ body.ended /\ ~body.errored
    /\ consumer # "errored"

\* C4: once the abort has fired, the handler makes no further call on the
\* response sink.
C4_NoSinkCallAfterAbort ==
  aborted => Len(calls) = callsAtAbort

\* C5: writeHeader is never called with the key content-length, and every
\* other header of the response is written exactly once, in the response's
\* order.
C5_HeadersForwarded ==
  /\ \A i \in 1..Len(calls) :
       calls[i].op = "writeHeader" => calls[i].arg[1] # "content-length"
  /\ WriterRan =>
       ArgsOf(CallsOf("writeHeader"))
         = SelectSeq(response.headers, LAMBDA h : h[1] # "content-length")

C5_Witness ==
  /\ pc = "done"
  /\ Len(response.headers) = 2
  /\ response.headers[1][1] = "content-length"
  /\ Len(CallsOf("writeHeader")) = 1

\* C6: whichever body branch runs, the handler makes exactly one end call,
\* and no write or end call follows it.
C6_TerminatedExactlyOnce ==
  /\ \A i \in 1..Len(calls) : calls[i].op = "end" => i = Len(calls)
  /\ (pc \in {"done", "failed"} /\ WriterRan /\ ~aborted) =>
       Len(CallsOf("end")) = 1

\* C7 as stated: an immediate buffer gives exactly one write call carrying
\* all its bytes, followed by exactly one end call.
C7_OneWriteThenOneEnd ==
  (WriterRan /\ response.body.kind = "buffer") =>
    /\ ArgsOf(CallsOf("write")) = <<response.body.bytes>>
    /\ Len(CallsOf("end")) = 1
    /\ calls[Len(calls)].op = "end"

\* C7 as amended: an immediate buffer gives exactly one end call, which
\* carries all its bytes and is the last call, and no write call.
C7_BufferEndsInOneCall ==
  (WriterRan /\ response.body.kind = "buffer") =>
    /\ CallsOf("write") = <<>>
    /\ CallsOf("end") = <<SinkCall("end", 1, response.body.bytes)>>
    /\ calls[Len(calls)].op = "end"
    /\ pc = "done"

C7_Witness ==
  /\ pc = "done"
  /\ response.body.kind = "buffer"
  /\ Len(response.body.bytes) = MaxBytes
  /\ calls[Len(calls)].arg = response.body.bytes

\* C8: an asynchronous body that completes after yielding K chunks gives
\* exactly K write calls, the chunks in production order, then exactly one
\* end call, made only after the sequence has completed.
C8_StreamWritesInOrder ==
  (WriterRan /\ response.body.kind = "stream") =>
    /\ ArgsOf(CallsOf("write")) = [i \in 1..produced |-> <<ChunkAt(i)>>]
    /\ (CallsOf("end") # <<>> => pc # "streaming")
    /\ pc = "done" =>
         /\ CallsOf("end") = <<SinkCall("end", 0, <<>>)>>
         /\ calls[Len(calls)].op = "end"
         /\ \A i \in 1..produced : calls[Len(calls) - i].op = "write"

C8_Witness ==
  /\ pc = "done"
  /\ response.body.kind = "stream"
  /\ produced = MaxBodyChunks
  /\ Len(CallsOf("write")) = MaxBodyChunks

\* the fields of a document the schema does not have, in order
UnknownFields(document) ==
  SelectSeq(document.selections, LAMBDA f : f \notin Schema[document.operation])

MessagesOf(no) == SelectSeq(sent, LAMBDA m : m.no = no)

\* C9: when validation of an operation's document finds errors, all of them
\* are returned: the operation gets one error message carrying every error
\* (none when the connection has closed meanwhile), no next or complete
\* message, and neither execute nor subscribe is invoked.
C9_ValidationErrorsEndOperation ==
  \A id \in Ids :
    LET o == ops[id]
        unknown == UnknownFields(o.args.document)
    IN (o.validates = 1 /\ unknown # <<>>) =>
         /\ o.st \in {"errored", "closed"}
         /\ o.invoked.fn = "none"
         /\ o.nexts = 0
         /\ \A i \in 1..Len(sent) :
              sent[i].no = o.no => sent[i].type = "error" /\ sent[i].id = id
         /\ o.st = "errored" =>
              /\ Len(MessagesOf(o.no)) = 1
              /\ [i \in 1..Len(MessagesOf(o.no)[1].payload) |->
                    MessagesOf(o.no)[1].payload[i].field] = unknown

C9_Witness ==
  \E id \in Ids :
    /\ ops[id].st = "errored"
    /\ Len(UnknownFields(ops[id].args.document)) = 2
    /\ \E i \in 1..Len(sent) : sent[i].no = ops[id].no /\ Len(sent[i].payload) = 2

\* C10: every operation resolves the enveloped tuple once, in its own
\* onSubscribe, and the implementation invoked for it is the one that was
\* active at that resolution.
C10_InvokesResolvedImplementation ==
  /\ resolutions = starts
  /\ \A id \in Ids :
       ops[id].invoked.fn # "none" =>
         ops[id].invoked.impl = ops[id].resolved[ops[id].invoked.fn]

C10_Witness ==
  \E id \in Ids :
    /\ ops[id].no = 2
    /\ ops[id].invoked.fn = "execute"
    /\ ops[id].invoked.impl = 1
    /\ \E other \in Ids : ops[other].no = 1 /\ ops[other].invoked.impl = 0
                         /\ ops[other].invoked.fn = "execute"

\* C11: a parse or validation error of one operation never affects another
\* operation on the same connection: in the step that rejects an operation,
\* the connection stays open and every other operation is left as it was.
C11_ErrorsAreIsolated ==
  [][\A id \in Ids :
       (/\ ops'[id].st \in {"rejected", "errored"}
        /\ ops'[id].no # ops[id].no \/ ops'[id].st # ops[id].st)
       => /\ wsOpen' = wsOpen
          /\ \A other \in Ids \ {id} : ops'[other] = ops[other]]_vars

\* the results carried by the next messages of an operation, in sent order
NextsOf(no) ==
  LET ms == SelectSeq(sent, LAMBDA m : m.no = no /\ m.type = "next")
  IN [i \in 1..Len(ms) |-> ms[i].payload]

Rank(op) == IF op = "writeStatus" THEN 0 ELSE IF op = "writeHeader" THEN 1 ELSE 2

\* C13: the calls of one response are ordered: a single writeStatus, whose
\* argument is the numeric status, a space and the status text, comes first;
\* every writeHeader comes before every body write and before the end call.
C13_StatusThenHeadersThenBody ==
  /\ Len(CallsOf("writeStatus")) <= 1
  /\ calls # <<>> =>
       calls[1] = SinkCall("writeStatus", 1,
                           <<response.status, " ", response.statusText>>)
  /\ \A i, j \in 1..Len(calls) : i < j => Rank(calls[i].op) <= Rank(calls[j].op)

C13_Witness ==
  /\ pc = "done"
  /\ Len(CallsOf("writeHeader")) = 2
  /\ Len(CallsOf("write")) = 2
  /\ calls[1].arg = <<"400", " ", "Bad Request">>
  /\ calls[Len(calls)].op = "end"

\* C14: an operation whose query fails to parse gets an error message of its
\* own, and is aborted before validation: neither the context factory nor
\* validate is invoked for it.
C14_ParseErrorSurfacedBeforeValidation ==
  \A id \in Ids :
    (ops[id].parses = 1 /\ ~Parse(ops[id].payload.query).ok) =>
      /\ ops[id].contexts = 0
      /\ ops[id].validates = 0
      /\ ops[id].invoked.fn = "none"
      /\ \E i \in 1..Len(sent) :
           /\ sent[i].type = "error"
           /\ sent[i].id = id
           /\ sent[i].no = ops[id].no

\* C15: an operation that has started keeps the implementations resolved in
\* its own onSubscribe: no step (a swap, another operation starting, its own
\* context settling or results) changes the execute and subscribe its args
\* reference, or the implementation it was invoked with.
C15_ArgsKeepResolvedImplementations ==
  [][\A id \in Ids :
       (InFlight(ops[id]) /\ ops'[id].no = ops[id].no) =>
         /\ ops'[id].args.rootValue = ops[id].args.rootValue
         /\ ops'[id].args.rootValue = ops[id].resolved
         /\ ops[id].invoked.fn # "none" => ops'[id].invoked = ops[id].invoked]_vars

C15_Witness ==
  \E id \in Ids, other \in Ids :
    /\ ops[id].no = 1 /\ ops[id].st = "running"
    /\ ops[id].invoked.fn = "subscribe" /\ ops[id].nexts = 2
    /\ ops[id].args.rootValue.subscribe = 0
    /\ active.subscribe = 1
    /\ ops[other].no = 2 /\ ops[other].st = "running"
    /\ ops[other].args.rootValue.subscribe = 1

\* C16: by the time the handler first suspends, every request header has
\* been copied into the plain mapping handed to the engine (for a repeated
\* key its last value), and the URL and the method have been read; no read of
\* the request object, the header iteration included, is made after the
\* handler has suspended.
C16_RequestReadBeforeSuspension ==
  /\ \A i \in 1..Len(reqReads) : ~reqReads[i].suspended
  /\ pc # "idle" =>
       /\ {reqReads[i].op : i \in 1..Len(reqReads)}
            = {"getMethod", "forEach", "getUrl"}
       /\ DOMAIN headers = {rawHeaders[i][1] : i \in 1..Len(rawHeaders)}
       /\ \A i \in 1..Len(rawHeaders) :
            (\A j \in (i + 1)..Len(rawHeaders) : rawHeaders[j][1] # rawHeaders[i][1])
              => headers[rawHeaders[i][1]] = rawHeaders[i][2]
       /\ fetchArgs.headers = headers
       /\ fetchArgs.method = method
       /\ fetchArgs.url # ""

C16_Witness ==
  /\ pc = "done"
  /\ Len(rawHeaders) = MaxHeaders
  /\ Len(reqReads) = 3
  /\ Len(calls) > 1

\* C17: the body stream never holds more chunks than the consumer's
\* outstanding demand, which for its single consumer is at most one pull:
\* the chunks pushed and not yet consumed do not grow with the number of
\* chunks delivered while the consumer is not reading.
C17_BufferBoundedByDemand ==
  body.present => Len(body.buffer) <= 1

\* C18: under every interleaving of the data and abort callbacks, the end of
\* the body stream is signalled to the consumer at most once, no chunk is
\* pushed after the end of the stream has been pushed, and an abort that
\* fires when the stream has already been ended (after the last-flag chunk)
\* changes nothing of the stream or of what its consumer sees.
C18_EndOfStreamAtMostOnce ==
  /\ [](completions <= 1 /\ ~body.errored)
  /\ [][(aborted' /\ ~aborted /\ body.ended) =>
          /\ body' = body
          /\ completions' = completions
          /\ consumer' = consumer
          /\ observed' = observed]_vars

C18_Witness ==
  /\ lastSent /\ aborted
  /\ Len(delivered) = MaxChunks
  /\ body.ended
  /\ consumer = "ended" /\ completions = 1

\* C19: once the engine call has settled and the response's body sequence
\* has finished, by completing or by failing, the handler has called end on
\* the (not aborted) response sink: no exchange is left open.
C19_EveryExchangeIsEnded ==
  \/ pc \in {"idle", "awaitFetch", "streaming"}
  \/ aborted
  \/ \E i \in 1..Len(calls) : calls[i].op = "end"

====
